---- MODULE Spec2Model ----
(***************************************************************************)
(* Model of the update orchestration of pypi-package-updater:              *)
(*   src/update_packages.py       main()                                   *)
(*   src/pypi_updater/updater.py  PyPIUpdater.check_for_updates,           *)
(*                                update_packages, _update_single_package, *)
(*                                _compile_requirements                    *)
(* One run of the command-line program is one behaviour.  The parser, the  *)
(* registry client, the operator and the compilation script are the        *)
(* environment: their answers are chosen nondeterministically.             *)
(***************************************************************************)
EXTENDS Integers, Sequences, FiniteSets, TLC

\* ---------------------------------------------------------------- bounds
MaxFiles == 2      \* requirements files handed to one run
MaxPkgs == 3       \* packages the parser finds in all files of one run
MaxVersion == 2    \* versions the registry can report are 1..MaxVersion

Versions == 1..MaxVersion
\* every parsed requirement is pinned to version 1 before the run
PinnedVersions == {1}

\* what the operator can type at the [y/N/q] prompt
Responses == {"y", "Y", "q", "Q", "n", ""}
\* the terminal closed: input() raises EOFError instead of returning
EndOfInput == "EOF"

\* what running tools/update-locked-requirements can end in
ScriptOutcomes == {"missing", "exit_zero", "exit_nonzero", "timeout", "exception"}

\* what parser.update_requirement_version can do: return True, return False,
\* or raise
MutationOutcomes == {"true", "false", "raise"}

\* Optional[str] = None
None == <<>>

VARIABLES
    file_paths,         \* check_for_updates: the files to inspect, in order
    check_only,         \* args.check_only
    dry_run,            \* args.dry_run
    auto_compile,       \* not args.no_compile
    interactive,        \* not args.non_interactive
    pc,                 \* position of the process
    update_info,        \* results of check_for_updates: file -> package infos
    disk,               \* disk[f][name]: version pinned in file f right now
    updates_to_perform, \* update_packages: flattened (file, pkg_info) pairs
    update_results,     \* update_packages: outcomes recorded so far
    updated_files,      \* update_packages: files with a successful mutation
    answer,             \* response.lower() of the last prompt, EOF if input() raised
    prompts,            \* number of input() calls issued
    mutation_calls,     \* log of update_requirement_version calls
    compile_calls,      \* number of _compile_requirements calls
    compile_result,     \* what the last _compile_requirements returned
    summary,            \* <<>> or <<the UpdateSummary update_packages returned>>
    printed,            \* print_update_summary has run
    exit_code           \* process exit status, -1 while running

vars == <<file_paths, check_only, dry_run, auto_compile, interactive, pc,
          update_info, disk, updates_to_perform, update_results,
          updated_files, answer, prompts, mutation_calls, compile_calls,
          compile_result, summary, printed, exit_code>>

flags == <<file_paths, check_only, dry_run, auto_compile, interactive>>
effects == <<answer, prompts, mutation_calls, compile_calls, compile_result>>

\* ------------------------------------------------------------ data model

\* PackageInfo.has_update: a newer version is known and differs from the pin
HasUpdate(current_version, latest_version) ==
    latest_version # current_version

PackageInfo(name, current_version, latest_version) ==
    [name |-> name,
     current_version |-> current_version,
     latest_version |-> latest_version,
     has_update |-> HasUpdate(current_version, latest_version)]

UpdateResult(package_name, old_version, new_version, file_path, success, error_message) ==
    [package_name |-> package_name,
     old_version |-> old_version,
     new_version |-> new_version,
     file_path |-> file_path,
     success |-> success,
     error_message |-> error_message]

UpdateSummary(total, updated, failed, skipped, updates) ==
    [total_packages |-> total,
     updated_packages |-> updated,
     failed_packages |-> failed,
     skipped_packages |-> skipped,
     updates |-> updates]

\* truth value of an Optional[str] in a condition
Truthy(message) == Len(message) > 0

SkippedByUser == <<"Skipped by user">>

FailedToUpdate(name, file_path) ==
    <<"Failed to update", ToString(name), "in", ToString(file_path)>>

\* str.lower() on the answers the operator can give
Lower(response) ==
    CASE response = "Y" -> "y"
      [] response = "Q" -> "q"
      [] response = "N" -> "n"
      [] OTHER -> response

\* -------------------------------------------------- update_packages helpers

RECURSIVE AllOfFile(_, _, _)
\* the inner loop without its has_update test
AllOfFile(file_path, package_infos, j) ==
    IF j > Len(package_infos) THEN <<>>
    ELSE <<[file_path |-> file_path, pkg_info |-> package_infos[j]]>>
         \o AllOfFile(file_path, package_infos, j + 1)

RECURSIVE UpToDateOfFile(_, _, _)
\* the inner loop with its has_update test inverted
UpToDateOfFile(file_path, package_infos, j) ==
    IF j > Len(package_infos) THEN <<>>
    ELSE (IF ~package_infos[j].has_update
          THEN <<[file_path |-> file_path, pkg_info |-> package_infos[j]]>>
          ELSE <<>>)
         \o UpToDateOfFile(file_path, package_infos, j + 1)

RECURSIVE UpdatesOfFile(_, _, _)
\* the inner loop of the collection: the packages of one file with has_update
UpdatesOfFile(file_path, package_infos, j) ==
    IF j > Len(package_infos) THEN <<>>
    ELSE (IF package_infos[j].has_update
          THEN <<[file_path |-> file_path, pkg_info |-> package_infos[j]]>>
          ELSE <<>>)
         \o UpdatesOfFile(file_path, package_infos, j + 1)

RECURSIVE CollectUpdatesLastFileFirst(_, _)
\* the collection walking the files from the last to the first
CollectUpdatesLastFileFirst(info, f) ==
    IF f > Len(info) THEN <<>>
    ELSE CollectUpdatesLastFileFirst(info, f + 1) \o UpdatesOfFile(f, info[f], 1)

RECURSIVE CollectUpdates(_, _)
\* updates_to_perform: file order, then package order, has_update only
CollectUpdates(info, f) ==
    IF f > Len(info) THEN <<>>
    ELSE UpdatesOfFile(f, info[f], 1) \o CollectUpdates(info, f + 1)

\* the branch without the dry-run test
DecisionBranchNoDryRun(dry, inter) ==
    IF inter THEN "prompt" ELSE "apply"

\* the branch with the interactive test ahead of the dry-run test
DecisionBranchPromptFirst(dry, inter) ==
    IF inter THEN "prompt"
    ELSE IF dry THEN "dry_run"
    ELSE "apply"

\* which branch of _update_single_package a candidate takes
DecisionBranch(dry, inter) ==
    IF dry THEN "dry_run"
    ELSE IF inter THEN "prompt"
    ELSE "apply"

\* a prompt that treats q like any other non-affirmative answer
ResponseKindNoQuit(response) ==
    IF Lower(response) # "y" THEN "skip" ELSE "apply"

\* a prompt whose default answer is yes
ResponseKindDefaultYes(response) ==
    IF Lower(response) = "q" THEN "quit"
    ELSE IF Lower(response) = "n" THEN "skip"
    ELSE "apply"

\* what the answer at the prompt leads to
ResponseKind(response) ==
    IF Lower(response) = "q" THEN "quit"
    ELSE IF Lower(response) # "y" THEN "skip"
    ELSE "apply"

\* exit status of sys.exit(1)
FailureStatus == 1

\* a quit that ends the process like a failure
QuitStatusOne == FailureStatus

\* exit(0) on quit
QuitStatus == 0

\* the outcome of _update_single_package under dry_run
DryRunResult(file_path, pkg_info) ==
    UpdateResult(pkg_info.name, pkg_info.current_version,
                 pkg_info.latest_version, file_path, TRUE, None)

\* a declined outcome that carries no message
SkippedResultNoMessage(file_path, pkg_info) ==
    UpdateResult(pkg_info.name, pkg_info.current_version,
                 pkg_info.latest_version, file_path, FALSE, None)

\* the outcome of _update_single_package when the operator declines
SkippedResult(file_path, pkg_info) ==
    UpdateResult(pkg_info.name, pkg_info.current_version,
                 pkg_info.latest_version, file_path, FALSE, SkippedByUser)

\* a failure outcome that carries no message
MutationResultNoMessage(file_path, pkg_info, success) ==
    UpdateResult(pkg_info.name, pkg_info.current_version,
                 pkg_info.latest_version, file_path, success, None)

\* the outcome built from what update_requirement_version returned
MutationResult(file_path, pkg_info, success) ==
    IF success
    THEN UpdateResult(pkg_info.name, pkg_info.current_version,
                      pkg_info.latest_version, file_path, TRUE, None)
    ELSE UpdateResult(pkg_info.name, pkg_info.current_version,
                      pkg_info.latest_version, file_path, FALSE,
                      FailedToUpdate(pkg_info.name, file_path))

\* compile whenever asked to, changed files or not
ShouldCompileAnyway(auto, files, dry) ==
    auto /\ ~dry

\* the guard of the compile step
ShouldCompile(auto, files, dry) ==
    auto /\ files # {} /\ ~dry

\* a compile step that lets the script's failures escape
CompileRequirementsRaising(outcome) ==
    CASE outcome = "missing" -> "false"
      [] outcome = "exit_zero" -> "true"
      [] outcome = "exit_nonzero" -> "false"
      [] outcome = "timeout" -> "raise"
      [] outcome = "exception" -> "raise"

\* what _compile_requirements returns for each way the script can end
CompileRequirements(outcome) ==
    CASE outcome = "missing" -> "false"
      [] outcome = "exit_zero" -> "true"
      [] outcome = "exit_nonzero" -> "false"
      [] outcome = "timeout" -> "false"
      [] outcome = "exception" -> "false"

IsUpdated(r) == r.success
IsFailed(r) == ~r.success /\ Truthy(r.error_message)
IsSkippedByUser(r) == ~r.success /\ r.error_message = SkippedByUser

\* sum(1 for r in update_results if r.success)
CountUpdated(results) ==
    Cardinality({i \in 1..Len(results) : IsUpdated(results[i])})

\* sum(1 for r in update_results if not r.success and r.error_message)
CountFailed(results) ==
    Cardinality({i \in 1..Len(results) : IsFailed(results[i])})

\* the outcomes the operator declined
CountSkippedByUser(results) ==
    Cardinality({i \in 1..Len(results) : IsSkippedByUser(results[i])})

\* a summary that counts the skipped outcomes on their own
SummaryCountingSkips(results) ==
    UpdateSummary(Len(results),
                  CountUpdated(results),
                  CountFailed(results),
                  CountSkippedByUser(results),
                  results)

\* the summary update_packages generates from the outcomes
SummaryOf(results) ==
    LET total == Len(results)
        updated == CountUpdated(results)
        failed == CountFailed(results)
        skipped == total - updated - failed
    IN UpdateSummary(total, updated, failed, skipped, results)

ZeroSummary == UpdateSummary(0, 0, 0, 0, <<>>)

\* exit status main() ends with after printing the summary
ExitStatusOf(s) == IF s.failed_packages > 0 THEN FailureStatus ELSE 0

\* a main that runs the update whatever --check-only says
MainBranchAlwaysUpdate(check) == "update"

\* main: `if args.check_only: ... else: ...`
MainBranch(check) == IF check THEN "check_only" ELSE "update"

\* a check that signals available updates through its exit status
CheckOnlyStatusSignalsUpdates(total_updates) ==
    IF total_updates > 0 THEN FailureStatus ELSE 0

\* main with --check-only reaches its end without sys.exit, whatever it counted
CheckOnlyStatus(total_updates) == 0

\* a call that hands over the version the file already pins
MutationCallCurrentVersion(cand, file_path, pkg_info, outcome) ==
    [cand |-> cand,
     file_path |-> file_path,
     package_name |-> pkg_info.name,
     new_version |-> pkg_info.current_version,
     outcome |-> outcome]

\* update_requirement_version(file_path, pkg_info.name, pkg_info.latest_version)
\* for candidate number cand, and how the call ended
MutationCall(cand, file_path, pkg_info, outcome) ==
    [cand |-> cand,
     file_path |-> file_path,
     package_name |-> pkg_info.name,
     new_version |-> pkg_info.latest_version,
     outcome |-> outcome]

\* a loop that stops after its first candidate
LoopFinishedEarly(results, updates) == Len(results) >= 1

\* `for file_path, pkg_info in updates_to_perform` has run out of candidates
LoopFinished(results, updates) == Len(results) = Len(updates)

\* the candidate the loop is at
Current == updates_to_perform[Len(update_results) + 1]

\* ----------------------------------------------------------------- Init

Init ==
    /\ file_paths \in {[i \in 1..n |-> i] : n \in 0..MaxFiles}
    /\ check_only \in BOOLEAN
    /\ dry_run \in BOOLEAN
    /\ auto_compile \in BOOLEAN
    /\ interactive \in BOOLEAN
    /\ pc = "check_for_updates"
    /\ update_info = <<>>
    /\ disk = <<>>
    /\ updates_to_perform = <<>>
    /\ update_results = <<>>
    /\ updated_files = {}
    /\ answer = "none"
    /\ prompts = 0
    /\ mutation_calls = <<>>
    /\ compile_calls = 0
    /\ compile_result = "none"
    /\ summary = <<>>
    /\ printed = FALSE
    /\ exit_code = -1

\* -------------------------------------------------------------- actions

\* the process ends with the given status
Exit(status) ==
    /\ pc' = "done"
    /\ exit_code' = status

\* positions (file, index) of the packages check_for_updates reported
Packages ==
    UNION {{<<f, j>> : j \in 1..Len(update_info[f])} : f \in 1..Len(update_info)}

\* check_for_updates, one iteration of the loop over file_paths: the parser
\* returns the packages of the file and the registry their latest versions
CheckFile ==
    /\ pc = "check_for_updates"
    /\ Len(update_info) < Len(file_paths)
    /\ \E n \in 0..(MaxPkgs - Cardinality(Packages)) :
         \E current \in [1..n -> PinnedVersions], latest \in [1..n -> Versions] :
            /\ update_info' = Append(update_info,
                   [j \in 1..n |-> PackageInfo(j, current[j], latest[j])])
            /\ disk' = Append(disk, current)
    /\ UNCHANGED <<flags, pc, updates_to_perform, update_results,
                   updated_files, effects, summary, printed, exit_code>>

\* check_for_updates raises (parse or registry failure): main's
\* `except Exception` prints the error and calls sys.exit(1)
CheckRaises ==
    /\ pc = "check_for_updates"
    /\ Len(update_info) < Len(file_paths)
    /\ Exit(FailureStatus)
    /\ UNCHANGED <<flags, update_info, disk, updates_to_perform,
                   update_results, updated_files, effects, summary, printed>>

CheckDone == pc = "check_for_updates" /\ Len(update_info) = Len(file_paths)

\* main with --check-only: report what check_for_updates returned and fall
\* off the end of main
CheckOnlyReport ==
    /\ CheckDone
    /\ MainBranch(check_only) = "check_only"
    /\ Exit(CheckOnlyStatus(Len(CollectUpdates(update_info, 1))))
    /\ UNCHANGED <<flags, update_info, disk, updates_to_perform,
                   update_results, updated_files, effects, summary, printed>>

\* update_packages: `if not update_info: return UpdateSummary(0, 0, 0, 0, [])`
NoFilesFound ==
    /\ CheckDone
    /\ MainBranch(check_only) = "update"
    /\ update_info = <<>>
    /\ summary' = <<ZeroSummary>>
    /\ pc' = "returned"
    /\ UNCHANGED <<flags, update_info, disk, updates_to_perform,
                   update_results, updated_files, effects, printed, exit_code>>

\* update_packages: collect the updates; none to perform returns the zero summary
NoUpdatesAvailable ==
    /\ CheckDone
    /\ MainBranch(check_only) = "update"
    /\ update_info # <<>>
    /\ CollectUpdates(update_info, 1) = <<>>
    /\ updates_to_perform' = CollectUpdates(update_info, 1)
    /\ summary' = <<ZeroSummary>>
    /\ pc' = "returned"
    /\ UNCHANGED <<flags, update_info, disk, update_results, updated_files,
                   effects, printed, exit_code>>

\* update_packages: collect the updates and enter the processing loop
BeginUpdates ==
    /\ CheckDone
    /\ MainBranch(check_only) = "update"
    /\ update_info # <<>>
    /\ CollectUpdates(update_info, 1) # <<>>
    /\ updates_to_perform' = CollectUpdates(update_info, 1)
    /\ pc' = "loop"
    /\ UNCHANGED <<flags, update_info, disk, update_results, updated_files,
                   effects, summary, printed, exit_code>>

\* a loop body that notes the file of every successful outcome, dry run or not
RecordAnySuccess(result) ==
    /\ update_results' = Append(update_results, result)
    /\ updated_files' = IF result.success
                        THEN updated_files \cup {Current.file_path}
                        ELSE updated_files
    /\ pc' = "loop"

\* the loop body after _update_single_package returned result
Record(result) ==
    /\ update_results' = Append(update_results, result)
    /\ updated_files' = IF result.success /\ ~dry_run
                        THEN updated_files \cup {Current.file_path}
                        ELSE updated_files
    /\ pc' = "loop"

InLoop == pc = "loop" /\ ~LoopFinished(update_results, updates_to_perform)

\* _update_single_package with dry_run: report the update, touch nothing
DryRunUpdate ==
    /\ InLoop
    /\ DecisionBranch(dry_run, interactive) = "dry_run"
    /\ Record(DryRunResult(Current.file_path, Current.pkg_info))
    /\ UNCHANGED <<flags, update_info, disk, updates_to_perform, effects,
                   summary, printed, exit_code>>

\* _update_single_package, interactive: input() and what the answer leads to
Prompt ==
    /\ InLoop
    /\ DecisionBranch(dry_run, interactive) = "prompt"
    /\ prompts' = prompts + 1
    /\ \E response \in Responses \cup {EndOfInput} :
         IF response = EndOfInput
         THEN \* EOFError propagates to main's `except Exception`
              /\ answer' = EndOfInput
              /\ Exit(FailureStatus)
              /\ UNCHANGED <<update_results, updated_files>>
         ELSE /\ answer' = Lower(response)
              /\ CASE ResponseKind(response) = "quit" ->
                        /\ Exit(QuitStatus)
                        /\ UNCHANGED <<update_results, updated_files>>
                   [] ResponseKind(response) = "skip" ->
                        /\ Record(SkippedResult(Current.file_path, Current.pkg_info))
                        /\ UNCHANGED exit_code
                   [] ResponseKind(response) = "apply" ->
                        /\ pc' = "apply"
                        /\ UNCHANGED <<update_results, updated_files, exit_code>>
    /\ UNCHANGED <<flags, update_info, disk, updates_to_perform,
                   mutation_calls, compile_calls, compile_result, summary, printed>>

\* _update_single_package, "Perform the update": one call of
\* parser.update_requirement_version and the outcome built from its result
Apply ==
    /\ \/ pc = "apply"
       \/ InLoop /\ DecisionBranch(dry_run, interactive) = "apply"
    /\ \E outcome \in MutationOutcomes :
         LET file_path == Current.file_path
             pkg_info == Current.pkg_info
             call == MutationCall(Len(update_results) + 1, file_path, pkg_info, outcome)
         IN /\ mutation_calls' = Append(mutation_calls, call)
            /\ disk' = IF outcome = "true"
                       THEN [disk EXCEPT ![call.file_path][call.package_name] = call.new_version]
                       ELSE disk
            /\ IF outcome = "raise"
               THEN /\ Exit(FailureStatus)
                    /\ UNCHANGED <<update_results, updated_files>>
               ELSE /\ Record(MutationResult(file_path, pkg_info, outcome = "true"))
                    /\ UNCHANGED exit_code
    /\ UNCHANGED <<flags, update_info, updates_to_perform, answer, prompts,
                   compile_calls, compile_result, summary, printed>>

\* update_packages after the loop: the guard of the compile step
FinishLoop ==
    /\ pc = "loop"
    /\ LoopFinished(update_results, updates_to_perform)
    /\ pc' = IF ShouldCompile(auto_compile, updated_files, dry_run)
             THEN "compile" ELSE "summary"
    /\ UNCHANGED <<flags, update_info, disk, updates_to_perform,
                   update_results, updated_files, effects, summary, printed,
                   exit_code>>

\* await self._compile_requirements()
Compile ==
    /\ pc = "compile"
    /\ compile_calls' = compile_calls + 1
    /\ \E outcome \in ScriptOutcomes :
         /\ compile_result' = CompileRequirements(outcome)
         /\ IF CompileRequirements(outcome) = "raise"
            THEN Exit(FailureStatus)
            ELSE pc' = "summary" /\ UNCHANGED exit_code
    /\ UNCHANGED <<flags, update_info, disk, updates_to_perform,
                   update_results, updated_files, answer, prompts,
                   mutation_calls, summary, printed>>

\* update_packages, "Generate summary", and return it
Summarize ==
    /\ pc = "summary"
    /\ summary' = <<SummaryOf(update_results)>>
    /\ pc' = "returned"
    /\ UNCHANGED <<flags, update_info, disk, updates_to_perform,
                   update_results, updated_files, effects, printed, exit_code>>

\* main: print the summary, exit 1 if any package failed
MainFinish ==
    /\ pc = "returned"
    /\ printed' = TRUE
    /\ Exit(ExitStatusOf(summary[1]))
    /\ UNCHANGED <<flags, update_info, disk, updates_to_perform,
                   update_results, updated_files, effects, summary>>

Next ==
    \/ CheckFile
    \/ CheckRaises
    \/ CheckOnlyReport
    \/ NoFilesFound
    \/ NoUpdatesAvailable
    \/ BeginUpdates
    \/ DryRunUpdate
    \/ Prompt
    \/ Apply
    \/ FinishLoop
    \/ Compile
    \/ Summarize
    \/ MainFinish

Spec == Init /\ [][Next]_vars

\* ------------------------------------------------- observations of a run

\* number of packages with has_update over all files
UpdatableCount ==
    Cardinality({p \in Packages : update_info[p[1]][p[2]].has_update})

\* update_packages ran check_for_updates to its end
CheckCompleted ==
    pc # "check_for_updates" /\ Len(update_info) = Len(file_paths)

CallsWith(outcome) ==
    {k \in 1..Len(mutation_calls) : mutation_calls[k].outcome = outcome}

MutationSucceeded == CallsWith("true") # {}

\* every file holds the pinned versions except where a mutation succeeded
DiskAsApplied ==
    \A f \in 1..Len(disk) : \A j \in 1..Len(disk[f]) :
       disk[f][j] =
          IF \E k \in CallsWith("true") :
                /\ mutation_calls[k].file_path = f
                /\ mutation_calls[k].package_name = j
          THEN update_info[f][j].latest_version
          ELSE update_info[f][j].current_version

\* no candidate is handed to update_requirement_version twice
AtMostOneCallPerCandidate ==
    \A k, l \in 1..Len(mutation_calls) :
       mutation_calls[k].cand = mutation_calls[l].cand => k = l

\* ----------------------------------------------------------------- claims

\* C1: every returned summary has total = updated + failed + skipped, no
\* negative counter, and total equal to the number of outcomes it lists.
C1_SummaryCountsAddUp ==
    summary # <<>> =>
       LET s == summary[1]
       IN /\ s.total_packages =
                s.updated_packages + s.failed_packages + s.skipped_packages
          /\ s.total_packages >= 0
          /\ s.updated_packages >= 0
          /\ s.failed_packages >= 0
          /\ s.skipped_packages >= 0
          /\ s.total_packages = Len(s.updates)

\* a summary over an applied, a failed and a declined candidate
C1_Witness ==
    /\ summary # <<>>
    /\ summary[1].total_packages >= 3
    /\ CallsWith("true") # {}
    /\ CallsWith("false") # {}
    /\ \E i \in 1..Len(update_results) : IsSkippedByUser(update_results[i])

\* C2: in a completed interactive run, failed_packages is the number of
\* outcomes whose mutation failed and skipped_packages the number of outcomes
\* the operator declined.
C2_DeclinedCountedAsSkipped ==
    (summary # <<>> /\ interactive /\ ~dry_run) =>
       /\ summary[1].failed_packages = Cardinality(CallsWith("false"))
       /\ summary[1].skipped_packages =
             CountSkippedByUser(summary[1].updates)

\* C3: with no file or no updatable candidate, update_packages returns the
\* zero summary and neither prompts, mutates nor compiles, whatever the flags.
C3_NoCandidatesNoWork ==
    (~check_only /\ CheckCompleted /\ UpdatableCount = 0) =>
       /\ pc \in {"returned", "done"}
       /\ summary = <<ZeroSummary>>
       /\ update_results = <<>>
       /\ prompts = 0
       /\ mutation_calls = <<>>
       /\ compile_calls = 0

\* a finished update run over files that have packages, none of them updatable
C3_Witness ==
    /\ ~check_only /\ pc = "done" /\ CheckCompleted
    /\ UpdatableCount = 0
    /\ Cardinality(Packages) >= 2
    /\ auto_compile /\ interactive /\ ~dry_run
    /\ summary = <<ZeroSummary>>

\* C4: a dry run never calls update_requirement_version nor
\* _compile_requirements, and its summary lists one successful outcome (old
\* and new version set, no error message) for every updatable candidate.
C4_DryRunTouchesNothing ==
    (dry_run /\ ~check_only) =>
       /\ mutation_calls = <<>>
       /\ compile_calls = 0
       /\ DiskAsApplied
       /\ summary # <<>> =>
             LET s == summary[1]
             IN /\ Len(s.updates) = UpdatableCount
                /\ s.updated_packages = s.total_packages
                /\ \A i \in 1..Len(s.updates) :
                      LET r == s.updates[i]
                          info == update_info[r.file_path][r.package_name]
                      IN /\ r.success
                         /\ r.error_message = None
                         /\ info.has_update
                         /\ r.old_version = info.current_version
                         /\ r.new_version = info.latest_version

\* a finished interactive dry run with auto-compile over three candidates
C4_Witness ==
    /\ dry_run /\ ~check_only /\ interactive /\ auto_compile
    /\ pc = "done"
    /\ summary # <<>>
    /\ summary[1].total_packages >= 3

\* the state the process is in once the operator has answered quit
QuitState ==
    answer = "q" =>
       /\ pc = "done"
       /\ prompts = Len(update_results) + 1
       /\ Len(mutation_calls) <= Len(update_results)
       /\ \A k \in 1..Len(mutation_calls) :
             mutation_calls[k].cand <= Len(update_results)
       /\ AtMostOneCallPerCandidate
       /\ compile_calls = 0
       /\ DiskAsApplied

\* C5: a quit at the prompt of the Nth candidate ends a run that has
\* processed exactly the first N-1 candidates (one prompt each, at most one
\* mutation each); afterwards nothing is prompted, mutated or compiled, and
\* the mutations applied before stay applied.
C5_QuitStopsRun ==
    /\ []QuitState
    /\ [][answer = "q" =>
            UNCHANGED <<prompts, mutation_calls, compile_calls, disk,
                        update_results>>]_vars

\* a quit at the third candidate after an applied mutation
C5_Witness ==
    /\ answer = "q" /\ pc = "done"
    /\ Len(update_results) = 2
    /\ prompts = 3
    /\ MutationSucceeded
    /\ auto_compile

\* C6 as claimed: a quit ends the process with a non-zero status and no
\* summary is returned or printed.
C6_QuitExitsNonZero ==
    (answer = "q" /\ pc = "done") =>
       /\ exit_code # 0
       /\ summary = <<>>
       /\ ~printed

\* C6 as the code has it: a quit ends the process with status zero, and no
\* summary is returned or printed.
C6_QuitExitsZero ==
    (answer = "q" /\ pc = "done") =>
       /\ exit_code = 0
       /\ summary = <<>>
       /\ ~printed

\* a quit that discards outcomes already recorded, one of them a failure
C6_Witness ==
    /\ answer = "q" /\ pc = "done"
    /\ exit_code = 0
    /\ CallsWith("false") # {}
    /\ summary = <<>>

\* C7: a run that reaches the end of the candidate loop compiles exactly once
\* if auto_compile is set, dry_run is not and a mutation succeeded, and not at
\* all otherwise; no run compiles twice.
C7_CompileOnceIffNeeded ==
    /\ compile_calls <= 1
    /\ (pc = "summary" \/ summary # <<>>) =>
          compile_calls =
             IF auto_compile /\ ~dry_run /\ MutationSucceeded THEN 1 ELSE 0

\* one compile call after mutations in two different files
C7_Witness ==
    /\ summary # <<>>
    /\ compile_calls = 1
    /\ Cardinality({mutation_calls[k].file_path : k \in CallsWith("true")}) >= 2

\* C8: however the compile step ends, the summary is the one of the recorded
\* outcomes, the applied mutations stay on disk and the exit status is the
\* one the summary gives.
C8_CompileResultIrrelevant ==
    (pc = "done" /\ compile_calls = 1) =>
       /\ summary # <<>>
       /\ printed
       /\ summary[1].updates = update_results
       /\ summary[1].total_packages = Len(updates_to_perform)
       /\ summary[1].updated_packages = Cardinality(CallsWith("true"))
       /\ exit_code = (IF summary[1].failed_packages > 0 THEN 1 ELSE 0)
       /\ DiskAsApplied

\* two files with one update each, the compile step fails: updated = 2, exit 0
C8_Witness ==
    /\ pc = "done"
    /\ compile_calls = 1
    /\ compile_result = "false"
    /\ summary # <<>>
    /\ summary[1].updated_packages = 2
    /\ Cardinality(updated_files) = 2
    /\ exit_code = 0

\* the outcome recorded for a call of update_requirement_version that
\* returned false
FailureRecorded ==
    \A k \in CallsWith("false") :
       LET call == mutation_calls[k]
       IN /\ call.cand <= Len(update_results)
          /\ LET r == update_results[call.cand]
             IN /\ ~r.success
                /\ r.error_message # None
                /\ Len(r.error_message) > 0
                /\ \E m, n \in 1..Len(r.error_message) :
                      /\ r.error_message[m] = ToString(call.package_name)
                      /\ r.error_message[n] = ToString(call.file_path)
                      /\ m < n
                /\ r.package_name = call.package_name
                /\ r.file_path = call.file_path
          /\ summary # <<>> =>
                /\ summary[1].failed_packages >= Cardinality(CallsWith("false"))
                /\ Len(summary[1].updates) = Len(updates_to_perform)

\* C9: a call of update_requirement_version that returns false is recorded as
\* an outcome with success=false and a message naming package and file, is
\* counted in failed_packages, and leaves the run in the candidate loop.
C9_MutationFailureRecorded ==
    /\ []FailureRecorded
    /\ [][(/\ Len(mutation_calls') = Len(mutation_calls) + 1
           /\ mutation_calls'[Len(mutation_calls')].outcome = "false")
          => /\ pc' = "loop"
             /\ Len(update_results') = Len(update_results) + 1
             /\ exit_code' = -1]_vars

\* a completed run whose first candidate failed and a later one was applied
C9_Witness ==
    /\ summary # <<>>
    /\ \E k \in CallsWith("false"), l \in CallsWith("true") :
          mutation_calls[k].cand < mutation_calls[l].cand
    /\ summary[1].failed_packages >= 1

\* C10: an update run that returns its summary exits non-zero exactly when a
\* file mutation failed.
C10_ExitNonZeroIffMutationFailed ==
    (pc = "done" /\ ~check_only /\ summary # <<>>) =>
       (exit_code # 0 <=> CallsWith("false") # {})

\* the package of update_info an outcome or a call refers to
InfoOf(file_path, name) == update_info[file_path][name]

\* C11: without prompt and without dry run, with mutations that all succeed,
\* update_requirement_version is called exactly once for every candidate with
\* has_update (its file, name and latest version), for no other package, no
\* prompt is issued, and the summary is (k, k, 0, 0) for k such candidates.
C11_NonInteractiveUpdatesAll ==
    (/\ ~check_only /\ ~interactive /\ ~dry_run
     /\ CallsWith("true") = 1..Len(mutation_calls)) =>
       /\ prompts = 0
       /\ AtMostOneCallPerCandidate
       /\ \A k \in 1..Len(mutation_calls) :
             LET call == mutation_calls[k]
             IN /\ <<call.file_path, call.package_name>> \in Packages
                /\ InfoOf(call.file_path, call.package_name).has_update
                /\ call.new_version =
                      InfoOf(call.file_path, call.package_name).latest_version
       /\ \A k, l \in 1..Len(mutation_calls) :
             (/\ mutation_calls[k].file_path = mutation_calls[l].file_path
              /\ mutation_calls[k].package_name = mutation_calls[l].package_name)
             => k = l
       /\ summary # <<>> =>
             /\ Len(mutation_calls) = UpdatableCount
             /\ summary[1].total_packages = UpdatableCount
             /\ summary[1].updated_packages = UpdatableCount
             /\ summary[1].failed_packages = 0
             /\ summary[1].skipped_packages = 0
             /\ DiskAsApplied

\* base.in with one outdated and one current package, and a second file:
\* a finished non-interactive run that rewrote every outdated package
C11_Witness ==
    /\ ~check_only /\ ~interactive /\ ~dry_run
    /\ pc = "done"
    /\ summary # <<>>
    /\ summary[1].updated_packages = 2
    /\ Len(mutation_calls) = 2
    /\ CallsWith("true") = {1, 2}
    /\ UpdatableCount < Cardinality(Packages)

\* C12: a package without has_update is never a candidate: it is never
\* prompted for, never mutated and never among the outcomes.
C12_UpToDateNeverProcessed ==
    /\ \A i \in 1..Len(updates_to_perform) :
          updates_to_perform[i].pkg_info.has_update
    /\ \A i \in 1..Len(update_results) :
          /\ <<update_results[i].file_path, update_results[i].package_name>>
                \in Packages
          /\ InfoOf(update_results[i].file_path,
                    update_results[i].package_name).has_update
    /\ \A k \in 1..Len(mutation_calls) :
          /\ <<mutation_calls[k].file_path, mutation_calls[k].package_name>>
                \in Packages
          /\ InfoOf(mutation_calls[k].file_path,
                    mutation_calls[k].package_name).has_update
    /\ prompts <= UpdatableCount
    /\ Len(update_results) <= UpdatableCount
    /\ \A p \in Packages :
          ~update_info[p[1]][p[2]].has_update =>
             disk[p[1]][p[2]] = update_info[p[1]][p[2]].current_version

\* a finished interactive run over a file that mixes outdated and current
\* packages
C12_Witness ==
    /\ pc = "done" /\ ~check_only /\ interactive /\ ~dry_run
    /\ summary # <<>>
    /\ Len(update_results) >= 1
    /\ MutationSucceeded
    /\ \E p, q \in Packages :
          /\ p[1] = q[1]
          /\ p[2] < q[2]
          /\ ~update_info[p[1]][p[2]].has_update
          /\ update_info[q[1]][q[2]].has_update

\* every file holds what the parser read from it
DiskAsParsed ==
    \A f \in 1..Len(disk) : \A j \in 1..Len(disk[f]) :
       disk[f][j] = update_info[f][j].current_version

\* C13: a --check-only run never calls update_requirement_version, never
\* prompts and never compiles; every file stays as it was.
C13_CheckOnlyTouchesNothing ==
    check_only =>
       /\ mutation_calls = <<>>
       /\ prompts = 0
       /\ compile_calls = 0
       /\ update_results = <<>>
       /\ summary = <<>>
       /\ DiskAsParsed

\* a finished --check-only run that found updates, with the flags that would
\* otherwise mutate and compile
C13_Witness ==
    /\ check_only /\ pc = "done"
    /\ CheckCompleted
    /\ UpdatableCount >= 2
    /\ ~dry_run /\ auto_compile /\ ~interactive

\* C14 as claimed: a --check-only run exits zero, also when
\* check_for_updates raises.
C14_CheckOnlyAlwaysExitsZero ==
    (check_only /\ pc = "done") => exit_code = 0

\* C14 as the code has it: a --check-only run exits zero when
\* check_for_updates returns, whatever it reports, and exits 1 when
\* check_for_updates raises.
C14_CheckOnlyExitsZeroUnlessRaised ==
    (check_only /\ pc = "done") =>
       /\ Len(update_info) = Len(file_paths) => exit_code = 0
       /\ Len(update_info) < Len(file_paths) => exit_code = 1

\* a --check-only run that found updates and ended with status zero
C14_Witness ==
    /\ check_only /\ pc = "done"
    /\ Len(update_info) = Len(file_paths)
    /\ UpdatableCount >= 1
    /\ exit_code = 0

\* the packages with has_update that come before package p in file order,
\* then package order
UpdatableBefore(p) ==
    {q \in Packages :
        /\ update_info[q[1]][q[2]].has_update
        /\ \/ q[1] < p[1]
           \/ q[1] = p[1] /\ q[2] < p[2]}

\* the outcomes recorded so far are those of the first updatable packages,
\* in order, and nothing is under way beyond the next candidate
InOrder ==
    /\ \A i \in 1..Len(update_results) :
          LET p == <<update_results[i].file_path, update_results[i].package_name>>
          IN /\ p \in Packages
             /\ update_info[p[1]][p[2]].has_update
             /\ Cardinality(UpdatableBefore(p)) = i - 1
    /\ \A k \in 1..Len(mutation_calls) :
          LET p == <<mutation_calls[k].file_path, mutation_calls[k].package_name>>
          IN /\ p \in Packages
             /\ Cardinality(UpdatableBefore(p)) = mutation_calls[k].cand - 1
             /\ mutation_calls[k].cand <= Len(update_results) + 1
             /\ mutation_calls[k].cand = Len(update_results) + 1
                   => k = Len(mutation_calls)
    /\ \A k, l \in 1..Len(mutation_calls) :
          k < l => mutation_calls[k].cand < mutation_calls[l].cand
    /\ prompts <= Len(update_results) + 1
    /\ summary # <<>> =>
          /\ summary[1].updates = update_results
          /\ Len(summary[1].updates) = UpdatableCount

\* C15: candidates are processed one at a time in file order, then package
\* order; nothing starts for candidate k+1 before the outcome of candidate k
\* is recorded, and the i-th outcome of the summary is that of the i-th
\* updatable candidate.
C15_ProcessedInOrder ==
    /\ []InOrder
    /\ [][\/ prompts' = prompts
          \/ prompts' = prompts + 1 /\ prompts = Len(update_results)]_vars
    /\ [][Len(mutation_calls') > Len(mutation_calls) =>
            /\ Len(mutation_calls') = Len(mutation_calls) + 1
            /\ mutation_calls'[Len(mutation_calls')].cand = Len(update_results) + 1]_vars

\* a summary over candidates of two files, the first file's candidate behind
\* a package that needs no update
C15_Witness ==
    /\ summary # <<>>
    /\ Len(summary[1].updates) = 2
    /\ summary[1].updates[1].file_path = 1
    /\ summary[1].updates[1].package_name = 2
    /\ summary[1].updates[2].file_path = 2
    /\ interactive /\ ~dry_run
    /\ Len(mutation_calls) = 2

\* answers that are neither affirmative nor quit
Declining == {Lower(r) : r \in Responses} \ {"y", "q"}

\* what an interactive run has done with the answers so far
AnswersObeyed ==
    (interactive /\ ~dry_run /\ ~check_only) =>
       /\ AtMostOneCallPerCandidate
       /\ \A k \in 1..Len(mutation_calls) : mutation_calls[k].cand <= prompts
       /\ pc = "apply" => answer = "y"
       /\ \A i \in 1..Len(update_results) :
             IsSkippedByUser(update_results[i]) =>
                \A k \in 1..Len(mutation_calls) : mutation_calls[k].cand # i
       /\ answer \in Declining =>
             /\ update_results # <<>>
             /\ LET last == update_results[Len(update_results)]
                IN /\ ~last.success
                   /\ last.error_message = <<"Skipped by user">>
                   /\ disk[last.file_path][last.package_name] = last.old_version
             /\ pc = "done" => summary # <<>>

\* C16: in an interactive run without dry_run, update_requirement_version is
\* called for a candidate only after the affirmative answer at its prompt,
\* and once; any answer that is neither affirmative nor quit records the
\* outcome (success=false, "Skipped by user"), mutates nothing and leaves the
\* run in the candidate loop.
C16_MutationOnlyOnYes ==
    /\ []AnswersObeyed
    /\ [][(interactive /\ Len(mutation_calls') > Len(mutation_calls)) =>
            /\ pc = "apply"
            /\ answer = "y"
            /\ prompts = mutation_calls'[Len(mutation_calls')].cand]_vars
    /\ [][(prompts' = prompts + 1 /\ answer' \in Declining) =>
            /\ pc' = "loop"
            /\ exit_code' = -1
            /\ Len(update_results') = Len(update_results) + 1
            /\ IsSkippedByUser(update_results'[Len(update_results')])
            /\ UNCHANGED <<mutation_calls, disk>>]_vars

\* the run is back in the loop after an applied candidate and a candidate
\* declined with the empty answer
C16_Witness ==
    /\ interactive /\ ~dry_run /\ ~check_only
    /\ pc = "loop"
    /\ answer = ""
    /\ Len(update_results) = 2
    /\ update_results[1].success
    /\ IsSkippedByUser(update_results[2])
    /\ Len(mutation_calls) = 1
    /\ Len(updates_to_perform) = 3

\* C17: an exception raised while a candidate is processed becomes a failed
\* outcome of that candidate, and only an operator quit ends the candidate
\* loop early.
C17_ExceptionContained ==
    /\ \A k \in CallsWith("raise") :
          /\ mutation_calls[k].cand <= Len(update_results)
          /\ IsFailed(update_results[mutation_calls[k].cand])
    /\ (pc = "done" /\ ~check_only /\ CheckCompleted /\ summary = <<>>) =>
          answer = "q"

\* the compile step has started
CompileStarted == pc = "compile" \/ compile_calls > 0

\* where the run stands once the compile step has started
CompileAfterLoop ==
    /\ CompileStarted =>
          /\ Len(update_results) = Len(updates_to_perform)
          /\ Len(update_results) = UpdatableCount
          /\ pc \notin {"loop", "apply"}
    /\ pc = "compile" => summary = <<>> /\ compile_calls = 0
    /\ (summary # <<>> /\ CompileStarted) =>
          /\ compile_calls = 1
          /\ compile_result \in {"true", "false"}

\* C18: the compile step starts only when every updatable candidate has its
\* outcome; after it has started nothing is prompted or mutated, and the
\* summary is built only after it has returned.
C18_CompileAfterAllCandidates ==
    /\ []CompileAfterLoop
    /\ [][CompileStarted =>
            UNCHANGED <<prompts, mutation_calls, update_results, disk>>]_vars
    /\ [][(summary = <<>> /\ summary' # <<>>) => pc # "compile"]_vars

\* a summary built after the compile step that followed three prompts
C18_Witness ==
    /\ summary # <<>>
    /\ compile_calls = 1
    /\ Len(update_results) = 3
    /\ prompts = 3
    /\ MutationSucceeded

\* an outcome as the data model wants it, for the package it belongs to
WellFormed(r) ==
    /\ r.success => r.error_message = None
    /\ ~r.success =>
          /\ r.error_message # None
          /\ Len(r.error_message) > 0
          /\ \A m \in 1..Len(r.error_message) : r.error_message[m] # ""
    /\ <<r.file_path, r.package_name>> \in Packages
    /\ r.new_version = InfoOf(r.file_path, r.package_name).latest_version
    /\ r.old_version = InfoOf(r.file_path, r.package_name).current_version

AllWellFormed ==
    /\ \A i \in 1..Len(update_results) : WellFormed(update_results[i])
    /\ summary # <<>> => summary[1].updates = update_results

\* C19: every outcome has no message when it succeeded and a non-empty one
\* when it did not, carries the candidate's current and latest version, and
\* is never changed once it is in the result list.
C19_OutcomesWellFormed ==
    /\ []AllWellFormed
    /\ [][/\ Len(update_results') >= Len(update_results)
          /\ \A i \in 1..Len(update_results) :
                update_results'[i] = update_results[i]]_vars

\* a summary with an applied, a failed and a declined outcome
C19_Witness ==
    /\ summary # <<>>
    /\ Len(update_results) = 3
    /\ \E i, j, k \in 1..3 :
          /\ update_results[i].success
          /\ IsSkippedByUser(update_results[j])
          /\ update_results[k].error_message # None
          /\ ~IsSkippedByUser(update_results[k])

\* C20: with dry_run and interactive both set the operator is never prompted,
\* no quit can happen, and a run whose check completed ends with a printed
\* summary that covers every updatable candidate.
C20_DryRunBeforeInteractive ==
    (dry_run /\ interactive /\ ~check_only) =>
       /\ prompts = 0
       /\ answer = "none"
       /\ pc # "apply"
       /\ (pc = "done" /\ CheckCompleted) =>
             /\ summary # <<>>
             /\ printed
             /\ exit_code = 0
             /\ Len(summary[1].updates) = UpdatableCount

\* a finished run with both flags set and two candidates
C20_Witness ==
    /\ dry_run /\ interactive /\ ~check_only /\ ~auto_compile
    /\ pc = "done"
    /\ summary # <<>>
    /\ Len(summary[1].updates) = 2
    /\ exit_code = 0

\* the files that received at least one successful mutation
MutatedFiles == {mutation_calls[k].file_path : k \in CallsWith("true")}

\* C21: without dry_run, updated_packages is the number of calls of
\* update_requirement_version that returned true and the files that trigger
\* the compile step are the files with a successful mutation; with dry_run
\* that set of files is empty and updated_packages equals total_packages.
C21_UpdatedMatchesMutations ==
    /\ ~dry_run =>
          /\ updated_files = MutatedFiles
          /\ summary # <<>> =>
                /\ summary[1].updated_packages = Cardinality(CallsWith("true"))
                /\ pc = "done" => (compile_calls = 1 <=>
                                     (auto_compile /\ MutatedFiles # {}))
    /\ dry_run =>
          /\ updated_files = {}
          /\ MutatedFiles = {}
          /\ summary # <<>> =>
                summary[1].updated_packages = summary[1].total_packages

\* a finished run that mutated one of two files twice and failed in the other
C21_Witness ==
    /\ ~dry_run /\ pc = "done"
    /\ summary # <<>>
    /\ summary[1].updated_packages = 2
    /\ Len(update_results) = 3
    /\ Cardinality(updated_files) = 1
    /\ \E i \in 1..3 :
          /\ ~update_results[i].success
          /\ update_results[i].file_path \notin updated_files

====
